---- MODULE Spec2Model ----
(***************************************************************************)
(* make-prefetch.py: the run of the script from argument parsing to exit.  *)
(*                                                                         *)
(* The script is Python 2 only (line 221, `except IOError, ioex`), so the  *)
(* exception hierarchy is Python 2's: URLError is an IOError, OSError is   *)
(* not, and an exception that reaches the top level ends the run with a    *)
(* traceback and exit status 1.                                            *)
(*                                                                         *)
(* Text is modelled as follows.  A path is a sequence of its "/"-separated *)
(* segments.  A file name inside the scanned tree is a sequence of its     *)
(* characters (fnmatch looks at characters).  An output line is a sequence *)
(* of tokens <<kind, text>>: "lit" for literal template text, the name of  *)
(* the placeholder for a substituted value, and "info" for a line printed  *)
(* under `if args.verbose`.                                                *)
(***************************************************************************)
EXTENDS Integers, Sequences, FiniteSets, TLC

\* ------------------------------------------------------------------ bounds
\* Number of directories of the scanned tree (the root included).
MaxDirs == 2

\* --------------------------------------------------------- python values
\* Python's None for the optional string arguments (-n, -u, -f).
None == "<None>"
\* A name that was never assigned: reading it raises NameError.
Unbound == -1
\* IOError.errno of an IOError that was built without an error number (None).
NoErrno == -1
\* Exit status of the interpreter after an uncaught exception.
UncaughtExit == 1
\* sys.exit(2) of every handled error that is not an IOError.
ErrorExit == 2

\* ---------------------------------------------------------------- strings
RECURSIVE Concat(_)
\* ''.join(chars)
Concat(cs) == IF cs = <<>> THEN "" ELSE Head(cs) \o Concat(Tail(cs))

RECURSIVE PathStr(_)
\* "/".join(segments): the text of a path
PathStr(p) ==
  IF Len(p) = 0 THEN ""
  ELSE IF Len(p) = 1 THEN p[1]
  ELSE p[1] \o "/" \o PathStr(Tail(p))

\* os.path.basename(path), and os.path.basename(urlparse(url).path)
basename(p) == p[Len(p)]

\* "://" in file_path: a scheme segment ("http:") followed by an empty segment
Schemes == {"http:"}
file_via_url(p) == \E i \in 1..(Len(p) - 1) : p[i] \in Schemes /\ p[i + 1] = ""

RECURSIVE fnmatch(_, _)
\* fnmatch.fnmatch(name, pattern): "*" matches any run of characters, "?" one
\* character, any other character itself.
fnmatch(n, p) ==
  IF p = <<>> THEN n = <<>>
  ELSE IF Head(p) = "*"
       THEN fnmatch(n, Tail(p)) \/ (n # <<>> /\ fnmatch(Tail(n), p))
       ELSE /\ n # <<>>
            /\ (Head(p) = "?" \/ Head(p) = Head(n))
            /\ fnmatch(Tail(n), Tail(p))

\* fnmatch.filter(filenames, pattern): the matching names, in listing order
fnmatch_filter(filenames, pat) == SelectSeq(filenames, LAMBDA n : fnmatch(n, pat))

\* ------------------------------------------------------------ file system
\* The scanned tree: directory 1 is the root, parent[d] < d is the directory
\* that holds d (0 for the root), files[d] is the listing of d's plain files.
DirIds == 1..MaxDirs
DirSegs == <<"top", "s2", "s3", "s4", "s5", "s6">>
FileNames == << <<"a", ".", "b">>, <<"c">> >>
Listings == { <<>>, <<FileNames[1]>>, <<FileNames[2]>>, FileNames }
Patterns == { <<"*", ".", "*">>, <<"*">> }
ParentFns ==
  { p \in [DirIds -> 0..MaxDirs] :
      p[1] = 0 /\ \A d \in DirIds \ {1} : p[d] \in 1..(d - 1) }
Trees == [parent : ParentFns, files : [DirIds -> Listings]]
\* A tree that is never walked (the source is not a directory).
NoTree == [parent |-> [d \in DirIds |-> IF d = 1 THEN 0 ELSE 1],
           files |-> [d \in DirIds |-> <<>>]]

RECURSIVE DirPath(_, _)
DirPath(t, d) ==
  IF t.parent[d] = 0 THEN <<DirSegs[d]>>
  ELSE Append(DirPath(t, t.parent[d]), DirSegs[d])

RECURSIVE Depth(_, _)
Depth(t, d) == IF t.parent[d] = 0 THEN 0 ELSE 1 + Depth(t, t.parent[d])

\* The subdirectories of d, in listing order.
RECURSIVE SubdirsFrom(_, _, _)
SubdirsFrom(t, d, c) ==
  IF c > MaxDirs THEN <<>>
  ELSE (IF t.parent[c] = d THEN <<c>> ELSE <<>>) \o SubdirsFrom(t, d, c + 1)
Subdirs(t, d) == SubdirsFrom(t, d, 1)

RootPath == <<DirSegs[1]>>
FilePath == <<"hello.txt">>
UrlPath == <<"http:", "", "example.com", "dl", "hello.txt">>
Sources == {RootPath, FilePath, UrlPath}
\* os.path.isdir(args.source)
isdir(src) == src = RootPath

\* ----------------------------------------------------------- process_file
\* The bytes of an artifact are identified by its path; only their number and
\* their digests are observed.
ChunkSize == 4096
ContentLen(p) == ChunkSize + Len(p)

RECURSIVE StreamedSize(_)
\* The read loop: size += len(chunk) for each chunk of at most ChunkSize bytes.
StreamedSize(left) ==
  IF left = 0 THEN 0
  ELSE LET chunk == IF left < ChunkSize THEN left ELSE ChunkSize
       IN chunk + StreamedSize(left - chunk)

\* os.path.getsize(file_path)
getsize(p) == ContentLen(p)

sha1_hexdigest(p) == "sha1(" \o PathStr(p) \o ")"
sha256_hexdigest(p) == "sha256(" \o PathStr(p) \o ")"

\* The name of the record: '' becomes REPLACEME, None the base name.
ResolveName_keeps_empty(file_path, file_name) ==
  IF file_name = None THEN basename(file_path) ELSE file_name
ResolveName(file_path, file_name) ==
  LET fn == IF file_name = "" THEN "REPLACEME" ELSE file_name
  IN  IF fn = None THEN basename(file_path) ELSE fn

\* The url of the record: '' becomes http://REPLACEME, None the source url of
\* a remote artifact and http://REPLACEME of a local one.
ResolveUrl(file_path, file_url) ==
  LET fu == IF file_url = "" THEN "http://REPLACEME" ELSE file_url
  IN  IF fu # None THEN fu
      ELSE IF file_via_url(file_path) THEN PathStr(file_path)
      ELSE "http://REPLACEME"

\* The dictionary process_file returns when nothing raises.
process_file(file_path, file_name, file_url) ==
  [name   |-> ResolveName(file_path, file_name),
   url    |-> ResolveUrl(file_path, file_url),
   size   |-> ToString(IF file_via_url(file_path)
                       THEN StreamedSize(ContentLen(file_path))
                       ELSE getsize(file_path)),
   sha1   |-> sha1_hexdigest(file_path),
   sha256 |-> sha256_hexdigest(file_path)]

NoFile == [name |-> "", url |-> "", size |-> "", sha1 |-> "", sha256 |-> ""]

\* The lines process_file prints under args.verbose.
Info(text) == << <<"info", text>> >>
process_file_info(file_path, file_name, file_url) ==
     << Info(IF file_via_url(file_path) THEN "File source is a url."
             ELSE "File source is the filesystem.") >>
  \o (IF file_name = ""
      THEN << Info("Name provided was an empty string, using 'REPLACEME' instead.") >>
      ELSE <<>>)
  \o (IF file_url = ""
      THEN << Info("URL provided was an empty string, using 'http://REPLACEME' instead.") >>
      ELSE <<>>)

\* What process_file can raise, by the place that raises it.  Local: open()
\* and read() raise IOError, os.path.getsize raises OSError, anything else
\* (TypeError, MemoryError, KeyboardInterrupt) carries no error number.
\* Remote: urlopen raises URLError, httplib raises its own exceptions.
EACCES == 13
LocalFailures ==
  { [exc |-> "IOError", errno |-> EACCES, at |-> "open"],
    [exc |-> "IOError", errno |-> NoErrno, at |-> "read"],
    [exc |-> "OSError", errno |-> EACCES, at |-> "getsize"],
    [exc |-> "Exception", errno |-> NoErrno, at |-> "open"] }
RemoteFailures ==
  { [exc |-> "URLError", errno |-> NoErrno, at |-> "open"],
    [exc |-> "Exception", errno |-> NoErrno, at |-> "read"] }
Failures(p) == IF file_via_url(p) THEN RemoteFailures ELSE LocalFailures
NoFailure == [exc |-> "", errno |-> NoErrno, at |-> ""]

\* --------------------------------------------------------------- templates
Lit(text) == <<"lit", text>>
Fld(name) == <<"field", name>>

manifest_output(algorithm) ==
  IF algorithm = "sha256"
  THEN << <<Lit("name="), Fld("name"), Lit(" sha256="), Fld("sha256"),
            Lit(" size="), Fld("size"), Lit(" url="), Fld("url"), Lit("/"), Fld("name")>> >>
  ELSE IF algorithm = "sha1"
  THEN << <<Lit("name="), Fld("name"), Lit(" sha1="), Fld("sha1"),
            Lit(" size="), Fld("size"), Lit(" url="), Fld("url"), Lit("/"), Fld("name")>> >>
  ELSE << <<Lit("name="), Fld("name"), Lit(" sha1="), Fld("sha1"),
            Lit(" sha256="), Fld("sha256"),
            Lit(" size="), Fld("size"), Lit(" url="), Fld("url"), Lit("/"), Fld("name")>> >>

prefetch_output(algorithm) ==
  IF algorithm = "sha256"
  THEN << <<Lit("prefetch "), Fld("name"), Lit(" size:"), Fld("size"), Lit(" "),
            Fld("url"), Lit(" sha256:"), Fld("sha256")>> >>
  ELSE IF algorithm = "sha1"
  THEN << <<Lit("prefetch "), Fld("name"), Lit(" sha1:"), Fld("sha1"),
            Lit(" size:"), Fld("size"), Lit(" "), Fld("url")>> >>
  ELSE << <<Lit("prefetch "), Fld("name"), Lit(" sha1:"), Fld("sha1"),
            Lit(" size:"), Fld("size"), Lit(" "), Fld("url"),
            Lit(" sha256:"), Fld("sha256")>> >>

\* The lines of the davis templates.
BeginLine == <<Lit("begin prefetch block")>>
ItemLine == <<Lit("add prefetch item name="), Fld("name"), Lit(" sha1="), Fld("sha1"),
              Lit(" size="), Fld("size"), Lit(" url="), Fld("url")>>
CollectLine == <<Lit("collect prefetch items")>>
EndLine == <<Lit("end prefetch block")>>

\* davis_output exits unless the algorithm is all or sha1 ...
davis_supported(algorithm) == algorithm = "all" \/ algorithm = "sha1"
\* ... and otherwise returns the template of the stage.
davis_output(algorithm, stage) ==
  IF stage = "middle" THEN <<ItemLine>>
  ELSE IF stage = "beginning" THEN <<BeginLine>>
  ELSE IF stage = "end" THEN <<ItemLine, CollectLine, EndLine>>
  ELSE <<BeginLine, ItemLine, CollectLine, EndLine>>

\* value_output exits unless the algorithm is sha1 or sha256.
value_supported(algorithm) == algorithm = "sha1" \/ algorithm = "sha256"
value_output(algorithm) ==
  IF algorithm = "sha1" THEN << <<Fld("sha1")>> >> ELSE << <<Fld("sha256")>> >>

\* output.format(name=..., size=..., url=..., sha1=..., sha256=...), one
\* sequence of tokens per line of the template.
FormatToken(tok, file) == IF tok[1] = "field" THEN <<tok[2], file[tok[2]]>> ELSE tok
FormatLine(line, file) == [i \in 1..Len(line) |-> FormatToken(line[i], file)]
format(template, file) == [i \in 1..Len(template) |-> FormatLine(template[i], file)]

\* ------------------------------------------------------------------ state
VARIABLES
  args,            \* the parsed command line (line 185)
  fs,              \* the directory tree under args.source
  pc,              \* "start", "walk", "loop", "format", "exited"
  walk,            \* os.walk: the directories still to visit, next first
  matching_files,  \* line 187
  num_matches,     \* line 200; Unbound when the source is not a directory
  davis_stage,     \* lines 192, 210; "" while not assigned
  counter,         \* line 186
  file,            \* line 217: the record of the artifact being rendered
  stdout,          \* the lines printed to standard output
  out_file,        \* the lines appended to args.file_output
  stderr,          \* the messages printed to standard error
  exit_status,     \* the exit status of the run, -1 while it runs
  opened,          \* history: the artifacts process_file was called on
  emitted,         \* history: the counter values whose record was written
  failure          \* history: what process_file raised, and for which artifact

vars == <<args, fs, pc, walk, matching_files, num_matches, davis_stage, counter,
          file, stdout, out_file, stderr, exit_status, opened, emitted, failure>>

Algorithms == {"all", "sha1", "sha256"}
Outputs == {"value", "davis", "prefetch", "manifest"}
NameArgs == {None, "", "setup.exe"}
UrlArgs == {None, "", "http://mirror/pkg"}
FileOutputArgs == {None, "manifest.txt"}
Running == -1

Init ==
  /\ args \in [source : Sources, algorithm : Algorithms, output : Outputs,
               name : NameArgs, url : UrlArgs, file_output : FileOutputArgs,
               recursive : BOOLEAN, pattern : Patterns, verbose : BOOLEAN]
  /\ fs \in (IF isdir(args.source) THEN Trees ELSE {NoTree})
  /\ pc = "start"
  /\ walk = <<>>
  /\ matching_files = <<>>
  /\ num_matches = Unbound
  /\ davis_stage = ""
  /\ counter = 1
  /\ file = NoFile
  /\ stdout = <<>>
  /\ out_file = <<>>
  /\ stderr = <<>>
  /\ exit_status = Running
  /\ opened = <<>>
  /\ emitted = <<>>
  /\ failure = [idx |-> 0, raised |-> NoFailure]

\* print(...) under `if args.verbose`
Verbose(lines) == IF args.verbose THEN lines ELSE <<>>

\* print(..., file=sys.stderr); sys.exit(status)
Exit(status, messages) ==
  /\ pc' = "exited"
  /\ exit_status' = status
  /\ stderr' = stderr \o messages

\* An exception nothing catches: traceback on standard error, exit status 1.
Traceback(exc) == Exit(UncaughtExit, << [text |-> "Traceback", source |-> "", cause |-> exc] >>)

\* ------------------------------------------------------------ enumeration
\* Lines 190-193: the source is a directory.
StartDir ==
  /\ pc = "start"
  /\ isdir(args.source)
  /\ stdout' = stdout \o Verbose(<< Info("{source} is a directory.") >>)
  /\ davis_stage' = IF args.output = "davis" THEN "beginning" ELSE davis_stage
  /\ walk' = <<1>>
  /\ pc' = "walk"
  /\ UNCHANGED <<args, fs, matching_files, num_matches, counter, file, out_file,
                 stderr, exit_status, opened, emitted, failure>>

\* Line 196: without -r the sub-directories are removed from dirnames, so that
\* os.walk does not visit them.
PruneDirnames_keeps_all(recursive, dirnames) == dirnames
PruneDirnames(recursive, dirnames) == IF ~recursive THEN <<>> ELSE dirnames

\* os.path.join(root, filename) for each filename of a list
JoinAll(root, filenames) ==
  [i \in 1..Len(filenames) |-> Append(root, Concat(filenames[i]))]

\* Lines 194-198: one iteration of `for root, dirnames, filenames in os.walk`.
WalkStep ==
  /\ pc = "walk"
  /\ walk # <<>>
  /\ LET d == Head(walk)
         root == DirPath(fs, d)
         dirnames == PruneDirnames(args.recursive, Subdirs(fs, d))
     IN  /\ matching_files' =
              matching_files \o JoinAll(root, fnmatch_filter(fs.files[d], args.pattern))
         /\ walk' = dirnames \o Tail(walk)
  /\ UNCHANGED <<args, fs, pc, num_matches, davis_stage, counter, file, stdout,
                 out_file, stderr, exit_status, opened, emitted, failure>>

\* Lines 200-203: the walk is over and nothing matched.
NoMatches ==
  /\ pc = "walk"
  /\ walk = <<>>
  /\ Len(matching_files) = 0
  /\ num_matches' = 0
  /\ Exit(ErrorExit, << [text |-> "No matching files found in", source |-> PathStr(args.source),
                         cause |-> ""] >>)
  /\ UNCHANGED <<args, fs, walk, matching_files, davis_stage, counter, file, stdout,
                 out_file, opened, emitted, failure>>

\* Lines 200-206: the walk is over and something matched.
Matches ==
  /\ pc = "walk"
  /\ walk = <<>>
  /\ Len(matching_files) # 0
  /\ num_matches' = Len(matching_files)
  /\ stdout' = stdout \o Verbose(<< Info("{num_matches} matching file(s) found.") >>)
  /\ pc' = "loop"
  /\ UNCHANGED <<args, fs, walk, matching_files, davis_stage, counter, file, out_file,
                 stderr, exit_status, opened, emitted, failure>>

\* Lines 207-210: the source is a single file or url; num_matches stays unbound.
StartSingle ==
  /\ pc = "start"
  /\ ~isdir(args.source)
  /\ matching_files' = Append(matching_files, args.source)
  /\ davis_stage' = IF args.output = "davis" THEN "all" ELSE davis_stage
  /\ pc' = "loop"
  /\ UNCHANGED <<args, fs, walk, num_matches, counter, file, stdout, out_file,
                 stderr, exit_status, opened, emitted, failure>>

\* ------------------------------------------------------------ the main loop
\* The artifact of the current iteration: the loop has run counter - 1 times.
matching_file == matching_files[counter]
InLoop == pc = "loop" /\ counter <= Len(matching_files)

\* Line 214 reads num_matches, which only the directory branch assigns.
ProgressRaises == args.verbose /\ num_matches = Unbound

\* What an iteration prints before process_file opens the artifact.
IterationInfo ==
  Verbose(<< Info("Processing {matching_file}...({counter} of {num_matches})") >>
          \o process_file_info(matching_file, args.name, args.url))

\* Line 213: the list is exhausted, the script ends.
LoopDone ==
  /\ pc = "loop"
  /\ counter > Len(matching_files)
  /\ pc' = "exited"
  /\ exit_status' = 0
  /\ UNCHANGED <<args, fs, walk, matching_files, num_matches, davis_stage, counter,
                 file, stdout, out_file, stderr, opened, emitted, failure>>

\* Line 214 with -v and a single source: NameError, uncaught.
ProgressNameError ==
  /\ InLoop
  /\ ProgressRaises
  /\ Traceback("NameError: name 'num_matches' is not defined")
  /\ UNCHANGED <<args, fs, walk, matching_files, num_matches, davis_stage, counter,
                 file, stdout, out_file, opened, emitted, failure>>

\* Lines 214-217: process_file returns.
ProcessFile ==
  /\ InLoop
  /\ ~ProgressRaises
  /\ stdout' = stdout \o IterationInfo
  /\ opened' = Append(opened, matching_file)
  /\ file' = process_file(matching_file, args.name, args.url)
  /\ pc' = "format"
  /\ UNCHANGED <<args, fs, walk, matching_files, num_matches, davis_stage, counter,
                 out_file, stderr, exit_status, emitted, failure>>

\* process_file raises f on the current artifact.
Raise(f) ==
  /\ InLoop
  /\ ~ProgressRaises
  /\ f \in Failures(matching_file)
  /\ stdout' = stdout \o IterationInfo
  /\ opened' = Append(opened, matching_file)
  /\ failure' = [idx |-> counter, raised |-> f]
  /\ UNCHANGED <<args, fs, walk, matching_files, num_matches, davis_stage, counter,
                 file, out_file, emitted>>

ErrorMessage(cause) ==
  [text |-> "Error processing", source |-> PathStr(args.source), cause |-> cause]

\* Lines 218-220.
HandleURLError(f) == Exit(ErrorExit, << ErrorMessage("reason") >>)
RaiseURLError ==
  \E f \in RemoteFailures : f.exc = "URLError" /\ Raise(f) /\ HandleURLError(f)

\* Lines 221-223.  os.strerror(None) raises TypeError inside the handler, before
\* anything is printed; sys.exit(n) exits with n modulo 256.
HandleIOError_continues(f) ==
  /\ pc' = "loop"
  /\ UNCHANGED <<exit_status, stderr>>
HandleIOError(f) ==
  IF f.errno = NoErrno
  THEN Traceback("TypeError: an integer is required")
  ELSE Exit(f.errno % 256, << ErrorMessage("strerror") >>)
RaiseIOError ==
  \E f \in LocalFailures :
     f.exc = "IOError" /\ Raise(f) /\ HandleIOError(f)

\* Lines 224-226.
HandleOther(f) == Exit(ErrorExit, << ErrorMessage("") >>)
RaiseOther ==
  \E f \in LocalFailures \cup RemoteFailures :
     f.exc \notin {"URLError", "IOError"} /\ Raise(f) /\ HandleOther(f)

\* ------------------------------------------------------- format and write
\* Lines 241-257: the record goes to args.file_output when -f is given and to
\* standard output otherwise; then counter += 1.  The output file is taken to
\* be writable.
Write(template) ==
  /\ IF args.file_output # None
     THEN /\ stdout' = stdout \o Verbose(<< Info("Writing output to {file_output}") >>)
          /\ out_file' = out_file \o format(template, file)
     ELSE /\ stdout' = stdout \o format(template, file)
          /\ out_file' = out_file
  /\ emitted' = Append(emitted, counter)
  /\ counter' = counter + 1
  /\ pc' = "loop"

\* Lines 228-229.
EmitManifest ==
  /\ pc = "format"
  /\ args.output = "manifest"
  /\ Write(manifest_output(args.algorithm))
  /\ UNCHANGED <<args, fs, walk, matching_files, num_matches, davis_stage, file,
                 stderr, exit_status, opened, failure>>

\* Lines 230-231, value_output returns.
EmitValue ==
  /\ pc = "format"
  /\ args.output = "value"
  /\ value_supported(args.algorithm)
  /\ Write(value_output(args.algorithm))
  /\ UNCHANGED <<args, fs, walk, matching_files, num_matches, davis_stage, file,
                 stderr, exit_status, opened, failure>>

\* Lines 230-231 and 155-156, value_output exits.
RejectValue ==
  /\ pc = "format"
  /\ args.output = "value"
  /\ ~value_supported(args.algorithm)
  /\ Exit(ErrorExit, << [text |-> "You must specify a hash algorithm to use",
                         source |-> "", cause |-> ""] >>)
  /\ UNCHANGED <<args, fs, walk, matching_files, num_matches, davis_stage, counter,
                 file, stdout, out_file, opened, emitted, failure>>

\* Line 235 reads num_matches, which only the directory branch assigns.
DavisNameError ==
  /\ pc = "format"
  /\ args.output = "davis"
  /\ num_matches = Unbound
  /\ Traceback("NameError: name 'num_matches' is not defined")
  /\ UNCHANGED <<args, fs, walk, matching_files, num_matches, davis_stage, counter,
                 file, stdout, out_file, opened, emitted, failure>>

\* Line 235: the stage davis_output is called with.
StageAtCall == IF counter = num_matches THEN "end" ELSE davis_stage
\* Line 237: the stage after the call.
StageAfterCall(stage) == IF stage = "beginning" THEN "middle" ELSE stage

\* Lines 232-236 and 131-134, davis_output exits.
RejectDavis ==
  /\ pc = "format"
  /\ args.output = "davis"
  /\ num_matches # Unbound
  /\ ~davis_supported(args.algorithm)
  /\ davis_stage' = StageAtCall
  /\ Exit(ErrorExit, << [text |-> "Algorithm {0} is not supported in davis downloads",
                         source |-> "", cause |-> ""] >>)
  /\ UNCHANGED <<args, fs, walk, matching_files, num_matches, counter, file, stdout,
                 out_file, opened, emitted, failure>>

\* Lines 232-237, davis_output returns.
EmitDavis ==
  /\ pc = "format"
  /\ args.output = "davis"
  /\ num_matches # Unbound
  /\ davis_supported(args.algorithm)
  /\ davis_stage' = StageAfterCall(StageAtCall)
  /\ Write(davis_output(args.algorithm, StageAtCall))
  /\ UNCHANGED <<args, fs, walk, matching_files, num_matches, file, stderr,
                 exit_status, opened, failure>>

\* Lines 238-239.
EmitPrefetch ==
  /\ pc = "format"
  /\ args.output = "prefetch"
  /\ Write(prefetch_output(args.algorithm))
  /\ UNCHANGED <<args, fs, walk, matching_files, num_matches, davis_stage, file,
                 stderr, exit_status, opened, failure>>

Next ==
  \/ StartDir \/ WalkStep \/ NoMatches \/ Matches \/ StartSingle
  \/ LoopDone \/ ProgressNameError \/ ProcessFile
  \/ RaiseURLError \/ RaiseIOError \/ RaiseOther
  \/ EmitManifest \/ EmitValue \/ RejectValue
  \/ DavisNameError \/ RejectDavis \/ EmitDavis \/ EmitPrefetch

Spec == Init /\ [][Next]_vars

\* ================================================================ claims
\* The primary output: args.file_output when -f is given, else standard output.
Primary == IF args.file_output # None THEN out_file ELSE stdout
IsInfo(line) == line[1][1] = "info"
\* The output records of a stream: its lines that no `if args.verbose` printed.
Records(stream) == SelectSeq(stream, LAMBDA line : ~IsInfo(line))

Exited == pc = "exited"
Failed == failure.idx # 0
DavisRun == args.output = "davis" /\ davis_supported(args.algorithm)
\* The item line of the k-th enumerated artifact.
ItemOf(k) == FormatLine(ItemLine, process_file(matching_files[k], args.name, args.url))
Distinct(seq) == \A i, j \in 1..Len(seq) : seq[i] = seq[j] => i = j

\* ---------------------------------------------------------------------- C1
\* C1: a davis run (algorithm sha1 or all) over a directory with N >= 2
\* readable artifacts writes one begin line, then the N item lines in
\* enumeration order (the first artifact's included), then one collect line
\* and one end line.
C1_DavisBlockOverDirectory ==
  (Exited /\ exit_status = 0 /\ DavisRun /\ isdir(args.source)
     /\ Len(matching_files) >= 2)
  => Records(Primary) =
       <<FormatLine(BeginLine, NoFile)>>
       \o [k \in 1..Len(matching_files) |-> ItemOf(k)]
       \o <<FormatLine(CollectLine, NoFile), FormatLine(EndLine, NoFile)>>

\* ---------------------------------------------------------------------- C2
\* C2: a davis run (algorithm sha1 or all) over a single artifact, be it a
\* file path, a url or a directory with exactly one match, whose artifact can
\* be read, completes and writes the full block: begin, item, collect, end.
\* (Stated for the runs without -v.)
C2_DavisBlockOverSingleArtifact ==
  (Exited /\ ~Failed /\ DavisRun /\ Len(matching_files) = 1 /\ ~args.verbose)
  => /\ exit_status = 0
     /\ Records(Primary) =
          <<FormatLine(BeginLine, NoFile), ItemOf(1),
            FormatLine(CollectLine, NoFile), FormatLine(EndLine, NoFile)>>

\* ---------------------------------------------------------------------- C3
\* C3: a run in value mode with algorithm all never opens, fetches or reads an
\* artifact: it is rejected before any I/O.
C3_ValueAllRejectedBeforeIO ==
  (args.output = "value" /\ args.algorithm = "all") => opened = <<>>

\* ---------------------------------------------------------------------- C4
\* C4: the run aborts at the first failure.  Once process_file has raised on
\* the k-th artifact the run has exited; the artifacts opened are exactly
\* a1..ak, each once; the records written are those of iterations 1..k-1; and
\* the step that raises, and every later step, leaves the records on standard
\* output and the output file as they were.
C4_AbortedAt ==
  Failed =>
    /\ Exited
    /\ opened = SubSeq(matching_files, 1, failure.idx)
    /\ Distinct(opened)
    /\ emitted = [i \in 1..(failure.idx - 1) |-> i]
C4_AbortsAtFirstFailure ==
  /\ []C4_AbortedAt
  /\ [][failure'.idx # 0 =>
          /\ Records(stdout') = Records(stdout)
          /\ out_file' = out_file
          /\ emitted' = emitted]_vars
\* A directory run of three artifacts fails on its second or third artifact,
\* after a record was written.
C4_Witness ==
  /\ Exited /\ Failed
  /\ Len(matching_files) >= 3
  /\ failure.idx >= 2
  /\ Records(Primary) # <<>>

\* ---------------------------------------------------------------------- C5
\* C5: when open() or read() of a local artifact fails, the exit status is the
\* error number the failure carries, and 2 when it carries none.
C5_LocalFailureExitStatus ==
  (Exited /\ Failed /\ ~file_via_url(matching_files[failure.idx])
     /\ failure.raised.at \in {"open", "read"})
  => exit_status = (IF failure.raised.errno # NoErrno THEN failure.raised.errno
                    ELSE 2)

\* ---------------------------------------------------------------------- C6
\* C6: a run that ends because the directory scan matched nothing, because a
\* remote fetch failed, or because the mode does not support the algorithm
\* (davis with sha256, value with all) exits with status 2, whatever the kind
\* of source and with or without -v; the empty scan and the unsupported
\* combination write no record.
Unsupported ==
  \/ args.output = "davis" /\ ~davis_supported(args.algorithm)
  \/ args.output = "value" /\ ~value_supported(args.algorithm)
C6_ExitStatusTwo ==
  /\ (Exited /\ num_matches = 0)
       => (exit_status = 2 /\ Records(Primary) = <<>>)
  /\ (Exited /\ Failed /\ file_via_url(matching_files[failure.idx]))
       => exit_status = 2
  /\ (Exited /\ ~Failed /\ num_matches # 0 /\ Unsupported)
       => (exit_status = 2 /\ Records(Primary) = <<>>)

\* ---------------------------------------------------------------------- C7
\* C7: the error message of a failed artifact names that artifact (in a
\* directory run the file that failed, not the directory), on standard error.
C7_MessageNamesArtifact ==
  \A i \in 1..Len(stderr) :
     stderr[i].text = "Error processing"
       => (Failed /\ stderr[i].source = PathStr(matching_files[failure.idx]))

\* ---------------------------------------------------------------------- C8
\* C8: -v does not change the primary output: no line printed under
\* `if args.verbose` is on the primary output (a run without -v prints none),
\* and -v does not end a run that would otherwise go on.
C8_VerboseOffPrimary ==
  /\ \A i \in 1..Len(Primary) : ~IsInfo(Primary[i])
  /\ (args.verbose /\ Exited /\ num_matches # 0) => opened # <<>>

\* ---------------------------------------------------------------------- C9
\* The files the claim expects: the files whose name matches the pattern, of
\* the root alone without -r and of every directory of the tree with -r.
ExpectedFiles ==
  UNION { { Append(DirPath(fs, d), Concat(fs.files[d][i])) :
              i \in { k \in 1..Len(fs.files[d]) : fnmatch(fs.files[d][k], args.pattern) } } :
          d \in { e \in DirIds : args.recursive \/ Depth(fs, e) = 0 } }
Enumerated == pc \notin {"start", "walk"} /\ isdir(args.source)
ExpectedName(name) == IF args.name = "" THEN name = "REPLACEME" ELSE name = args.name
ExpectedUrl(url) == IF args.url = "" THEN url = "http://REPLACEME" ELSE url = args.url
\* The values a stream's lines carry for a placeholder.
TokensOf(stream, field) ==
  UNION { { stream[i][j][2] : j \in { k \in 1..Len(stream[i]) : stream[i][k][1] = field } } :
          i \in 1..Len(stream) }
OverrideApplied(tok) ==
  /\ tok[1] = "name" => (tok[2] # "" /\ (args.name # None => ExpectedName(tok[2])))
  /\ tok[1] = "url" => (tok[2] # "" /\ (args.url # None => ExpectedUrl(tok[2])))
\* Every name and url of every line of the stream is as the overrides say.
OverridesApplied(stream) ==
  \A i \in 1..Len(stream) : \A j \in 1..Len(stream[i]) : OverrideApplied(stream[i][j])
====
